---- MODULE Spec2Model ----
(***************************************************************************)
(* Deck & Turn Engine of the two-player card-matching game                 *)
(* (src/cardgame.c, src/cardgame.h, src/main.c).                           *)
(*                                                                         *)
(* A DeckOfCards is the record [cards, size, topCard]: cards holds the     *)
(* first `size` elements of the C buffer (1-based here, 0-based in C),     *)
(* size is the C int field and topCard the cached card of the struct.      *)
(* The model plays with a reduced pack: the suits Club..Spade and the      *)
(* ranks Two..LastRank, one pack, DealCount cards dealt to each hand.      *)
(* The turn narration is presentation and stays outside the game's state   *)
(* machine. The operations of the deck container and the text lookups are  *)
(* also applied on their own, to decks of up to MaxProbeLen cards and to   *)
(* the full pack, under ProbeSpec; probe records one such application.     *)
(***************************************************************************)
EXTENDS Integers, Sequences, FiniteSets

VARIABLES hiddenDeck, player1, player2, playedDeck, currentPlayer, pc, turn,
          probe

vars == <<hiddenDeck, player1, player2, playedDeck, currentPlayer, pc, turn,
          probe>>

(* ------------------------------ bounds --------------------------------- *)
\* highest rank of the reduced pack (Ace = 12 in the program)
LastRank == 2
\* cards dealt to each hand before the game starts (8 in the program)
DealCount == 2
\* how far below zero the size of the hidden deck may be driven by
\* out-of-bounds draws before the model lets the process only crash
MaxUnderflow == 1
\* longest deck the deck operations are applied to on their own
MaxProbeLen == 3

(* ------------------------- enums of cardgame.h ------------------------- *)
Club == 0
Spade == 1
Heart == 2
Diamond == 3
Two == 0
Three == 1
Ace == 12
\* the bounds of the prompt loop of getNumPacksFromUser
MinPacks == 1
MaxPacks == 10
PlayerOne == 0
PlayerTwo == 1

\* suits of the reduced pack (Club..Diamond in the program)
LastSuit == Spade
Suits == Club .. LastSuit
Ranks == Two .. LastRank
\* pack counts the game is started with (1..10 in the program)
PackCounts == {1}

PlayingCard(suit, rank) == [suit |-> suit, rank |-> rank]
Cards == {PlayingCard(s, r) : s \in Suits, r \in Ranks}

\* a value outside both enums, standing for what an out-of-bounds read yields
\* beyond the cards of the pack
GarbageCard == PlayingCard(LastSuit + 1, LastRank + 1)
AnyCard == Cards \cup {GarbageCard}

\* the initialiser { NULL, 0, {0} }
ZeroCard == PlayingCard(0, 0)
EmptyDeck == [cards |-> <<>>, size |-> 0, topCard |-> ZeroCard]

(* --------------------------- Deck Container ---------------------------- *)
\* cards[i] of the C buffer
At(cards, i) == cards[i + 1]

addCardToDeck(deck, card) ==
    [deck EXCEPT !.cards = Append(@, card), !.size = @ + 1]

\* mutant: the card is taken from the front of the buffer
drawCardFirst(deck) ==
    IF deck.size >= 1
    THEN {[card |-> At(deck.cards, 0),
           deck |-> [deck EXCEPT !.cards = SubSeq(@, 2, deck.size),
                                 !.size = @ - 1],
           crashed |-> FALSE]}
    ELSE {[card |-> ZeroCard, deck |-> deck, crashed |-> TRUE]}

\* drawCard: the set of outcomes [card, deck, crashed]. On a deck with
\* size <= 0 the read of cards[size - 1] is out of bounds: the process
\* crashes, or the read yields an arbitrary card and size goes below zero.
drawCard(deck) ==
    IF deck.size >= 1
    THEN {[card |-> At(deck.cards, deck.size - 1),
           deck |-> [deck EXCEPT !.cards = SubSeq(@, 1, deck.size - 1),
                                 !.size = @ - 1],
           crashed |-> FALSE]}
    ELSE {[card |-> ZeroCard, deck |-> deck, crashed |-> TRUE]}
         \cup (IF deck.size > -MaxUnderflow
               THEN {[card |-> c,
                      deck |-> [deck EXCEPT !.cards = <<>>, !.size = @ - 1],
                      crashed |-> FALSE] : c \in AnyCard}
               ELSE {})

\* mutant: the rank loop stops before the last rank
RECURSIVE RankLoopShort(_, _, _, _)
RankLoopShort(deck, suit, rank, lastRank) ==
    IF rank >= lastRank THEN deck
    ELSE RankLoopShort(addCardToDeck(deck, PlayingCard(suit, rank)),
                       suit, rank + 1, lastRank)

\* the three nested loops of initializeDeck, over the suits Club..lastSuit
\* and the ranks Two..lastRank: the rank loop, the suit loop, the pack loop
RECURSIVE RankLoop(_, _, _, _)
RankLoop(deck, suit, rank, lastRank) ==
    IF rank > lastRank THEN deck
    ELSE RankLoop(addCardToDeck(deck, PlayingCard(suit, rank)),
                  suit, rank + 1, lastRank)

RECURSIVE SuitLoop(_, _, _, _)
SuitLoop(deck, suit, lastSuit, lastRank) ==
    IF suit > lastSuit THEN deck
    ELSE SuitLoop(RankLoop(deck, suit, Two, lastRank),
                  suit + 1, lastSuit, lastRank)

\* (the size of the deck is read after each pack so that a pack is built
\* before the next iteration starts; a pack never shrinks the deck)
RECURSIVE InitLoop(_, _, _, _, _)
InitLoop(deck, numPacks, pack, lastSuit, lastRank) ==
    IF pack >= numPacks THEN deck
    ELSE LET filled == SuitLoop(deck, Club, lastSuit, lastRank)
         IN  IF filled.size >= deck.size
             THEN InitLoop(filled, numPacks, pack + 1, lastSuit, lastRank)
             ELSE filled

\* initializeDeck as the program runs it: Club..Diamond, Two..Ace
initializeDeck(numPacks) ==
    InitLoop(EmptyDeck, numPacks, 0, Diamond, Ace)

\* initializeDeck on the reduced pack the game is played with
ReducedDeck(numPacks) ==
    InitLoop(EmptyDeck, numPacks, 0, LastSuit, LastRank)

\* mutant: temp is never written back, cards[i] is lost
SwapLosesTemp(cards, i, j) == [cards EXCEPT ![i + 1] = At(cards, j)]

Swap(cards, i, j) ==
    [cards EXCEPT ![i + 1] = At(cards, j), ![j + 1] = At(cards, i)]

\* the backward pass of shuffleDeck from index i, over every value of
\* rand() % (i + 1)
RECURSIVE ShuffleFrom(_, _)
ShuffleFrom(cards, i) ==
    IF i > 0
    THEN UNION {ShuffleFrom(Swap(cards, i, j), i - 1) : j \in 0 .. i}
    ELSE {cards}

shuffleDeck(deck) ==
    {[deck EXCEPT !.cards = cs] : cs \in ShuffleFrom(deck.cards, deck.size - 1)}

\* the bubble sort of customSort: outer index i, inner index j
RECURSIVE SortLoop(_, _, _, _)
SortLoop(cards, size, i, j) ==
    IF i >= size - 1 THEN cards
    ELSE IF j >= size - i - 1 THEN SortLoop(cards, size, i + 1, 0)
    ELSE IF At(cards, j).rank > At(cards, j + 1).rank
         THEN SortLoop(Swap(cards, j, j + 1), size, i, j + 1)
         ELSE SortLoop(cards, size, i, j + 1)

\* mutant: the outer loop runs once only
RECURSIVE SortPass(_, _, _)
SortPass(cards, size, j) ==
    IF j >= size - 1 THEN cards
    ELSE IF At(cards, j).rank > At(cards, j + 1).rank
         THEN SortPass(Swap(cards, j, j + 1), size, j + 1)
         ELSE SortPass(cards, size, j + 1)

customSortOnePass(deck) == [deck EXCEPT !.cards = SortPass(@, deck.size, 0)]

customSort(deck) == [deck EXCEPT !.cards = SortLoop(@, deck.size, 0, 0)]

(* ----------------------------- Card Model ------------------------------ *)
\* what the caller gets from a lookup that falls off the end of its switch
\* without a return: the process crashes when the value is used ("" with
\* crashed), or the value points at some text of the program
ProgramTexts == {"Club", "Spade", "Heart", "Diamond", "Two", "Three", "?"}
NoReturn ==
    {[text |-> "", crashed |-> TRUE]}
        \cup {[text |-> s, crashed |-> FALSE] : s \in ProgramTexts}

Returns(s) == {[text |-> s, crashed |-> FALSE]}

suitToString(suit) ==
    IF suit = Club THEN Returns("Club")
    ELSE IF suit = Spade THEN Returns("Spade")
    ELSE IF suit = Heart THEN Returns("Heart")
    ELSE IF suit = Diamond THEN Returns("Diamond")
    ELSE NoReturn

rankToString(rank) ==
    IF rank = Two THEN Returns("Two")
    ELSE IF rank = Three THEN Returns("Three")
    ELSE NoReturn

\* the line displayDeck prints for one card: "%s of %s"
displayLine(card) ==
    {[text |-> IF r.crashed \/ s.crashed THEN <<>> ELSE <<r.text, "of", s.text>>,
      crashed |-> r.crashed \/ s.crashed]
     : r \in rankToString(card.rank), s \in suitToString(card.suit)}

(* ---------------------------- Turn Resolver ---------------------------- *)
canPlayCard(card, topCard) ==
    card.rank = topCard.rank \/ card.suit = topCard.suit

\* the test `topCard.rank == 0` that decides whether a reference is drawn
IsEmptyTop(topCard) == topCard.rank = 0

\* the scan for matchIndex: the first i with canPlayCard, or -1
RECURSIVE ScanFrom(_, _, _)
ScanFrom(player, topCard, i) ==
    IF i >= player.size THEN -1
    ELSE IF canPlayCard(At(player.cards, i), topCard) THEN i
    ELSE ScanFrom(player, topCard, i + 1)

\* mutant: the scan keeps going and settles on the last match
RECURSIVE ScanLast(_, _, _, _)
ScanLast(player, topCard, i, found) ==
    IF i >= player.size THEN found
    ELSE IF canPlayCard(At(player.cards, i), topCard)
         THEN ScanLast(player, topCard, i + 1, i)
         ELSE ScanLast(player, topCard, i + 1, found)

FindMatchNoBreak(player, topCard) == ScanLast(player, topCard, 0, -1)

FindMatch(player, topCard) == ScanFrom(player, topCard, 0)

\* mutant: the card is appended and the cached topCard left as it was
PlayOntoStaleTop(played, card) == addCardToDeck(played, card)

\* playedDeck after the card is played
PlayOnto(played, card) ==
    [addCardToDeck(played, card) EXCEPT !.topCard = card]

\* mutant: the played card is never taken out of the hand
RemoveAtKeepsCard(player, matchIndex) == player

\* the hand after cards[matchIndex] is shifted out
RemoveAt(player, matchIndex) ==
    [player EXCEPT
        !.cards = [i \in 1 .. (player.size - 1) |->
                      IF i - 1 < matchIndex THEN player.cards[i]
                      ELSE player.cards[i + 1]],
        !.size = @ - 1]

\* mutant: the copy loop stops one short and leaves the last played card out
RefillButLast(hidden, played) ==
    IF played.size = 0 THEN [hidden EXCEPT !.cards = <<>>, !.size = 0]
    ELSE [hidden EXCEPT !.cards = SubSeq(played.cards, 1, played.size - 1),
                        !.size = played.size - 1]

\* the hidden deck refilled from the played deck, before it is shuffled
Refill(hidden, played) ==
    [hidden EXCEPT !.cards = played.cards, !.size = played.size]

\* mutant: the reshuffle leaves the last played card on the played deck
ResetPlayedKeepsTop(played) ==
    IF played.size = 0 THEN played
    ELSE [played EXCEPT !.cards = <<played.cards[played.size]>>, !.size = 1]

\* the played deck after the reshuffle
ResetPlayed(played) ==
    [played EXCEPT !.cards = <<>>, !.size = 0, !.topCard.rank = 0]

\* step 5 of takeTurn on the decks m = [hidden, player, played]
Reshuffle(m) ==
    IF m.hidden.size = 0
    THEN {[hidden |-> h, player |-> m.player, played |-> ResetPlayed(m.played),
           reshuffled |-> TRUE] : h \in shuffleDeck(Refill(m.hidden, m.played))}
    ELSE {[hidden |-> m.hidden, player |-> m.player, played |-> m.played,
           reshuffled |-> FALSE]}

Decks(hidden, player, played) ==
    [hidden |-> hidden, player |-> player, played |-> played]

\* the reference card: drawn when the cached top card tests empty
Reference(hidden, played) ==
    IF IsEmptyTop(played.topCard)
    THEN drawCard(hidden)
    ELSE {[card |-> played.topCard, deck |-> hidden, crashed |-> FALSE]}

\* what a turn has done up to its draw/play step: the decks it started on,
\* whether a reference was drawn, the reference card, the hidden deck after
\* step 1 (pile), matchIndex, and the size of the hidden deck at each call
\* of drawCard (draws)
Seen(before, refDrawn, ref, pile, matchIndex, draws) ==
    [before |-> before, refDrawn |-> refDrawn, ref |-> ref, pile |-> pile,
     matchIndex |-> matchIndex, draws |-> draws]

\* a turn that ends in a crash at the decks d
CrashedTurn(seen, d) ==
    [seen |-> seen, mid |-> d, after |-> d,
     reshuffled |-> FALSE, crashed |-> TRUE]

\* a turn that runs to its end: mid are the decks after the draw/play step
CompletedTurns(seen, mid) ==
    {[seen |-> seen, mid |-> mid,
      after |-> Decks(r.hidden, r.player, r.played),
      reshuffled |-> r.reshuffled, crashed |-> FALSE] : r \in Reshuffle(mid)}

\* the play-or-draw step on the outcome r of step 1
PlayOrDraw(before, refDrawn, r) ==
    LET player == before.player
        played == before.played
        matchIndex == FindMatch(player, r.card)
        refDraws == IF refDrawn THEN <<before.hidden.size>> ELSE <<>>
        seen == Seen(before, refDrawn, r.card, r.deck, matchIndex, refDraws)
        seenDraw == Seen(before, refDrawn, r.card, r.deck, matchIndex,
                         Append(refDraws, r.deck.size))
    IN  IF matchIndex # -1
        THEN CompletedTurns(seen,
                 Decks(r.deck, RemoveAt(player, matchIndex),
                       PlayOnto(played, At(player.cards, matchIndex))))
        ELSE UNION {IF d.crashed
                    THEN {CrashedTurn(seenDraw, Decks(r.deck, player, played))}
                    ELSE CompletedTurns(seenDraw,
                             Decks(d.deck, addCardToDeck(player, d.card), played))
                    : d \in drawCard(r.deck)}

\* every way takeTurn can run on the three decks
takeTurn(hidden, player, played) ==
    LET before == Decks(hidden, player, played)
        refDrawn == IsEmptyTop(played.topCard)
    IN  UNION {IF r.crashed
               THEN {CrashedTurn(Seen(before, refDrawn, r.card, hidden, -1,
                                      <<hidden.size>>), before)}
               ELSE PlayOrDraw(before, refDrawn, r)
               : r \in Reference(hidden, played)}

(* ------------------------------ Game Loop ------------------------------ *)
\* mutant: the game ends only when both hands are empty
BothHandsEmpty(p1, p2) == p1.size = 0 /\ p2.size = 0

\* mutant: the comparison is off by one and ends the game at one card left
FinishedAtOneCard(p1, p2) == p1.size <= 1 \/ p2.size <= 1

isGameFinished(p1, p2) == p1.size = 0 \/ p2.size = 0

\* mutant: the indicator is written back unchanged
ToggleStuck(p) == p

Toggle(p) == IF p = PlayerOne THEN PlayerTwo ELSE PlayerOne

\* the deal of main: DealCount rounds of one card to each player
RECURSIVE DealLoop(_, _, _, _)
DealLoop(hidden, p1, p2, i) ==
    IF i >= DealCount THEN {<<hidden, p1, p2>>}
    ELSE UNION {UNION {DealLoop(b.deck, addCardToDeck(p1, a.card),
                                addCardToDeck(p2, b.card), i + 1)
                       : b \in {x \in drawCard(a.deck) : ~x.crashed}}
                : a \in {x \in drawCard(hidden) : ~x.crashed}}

\* the decks main hands to startGame: hidden deck initialised and shuffled,
\* hands dealt and sorted, played deck empty
MainSetup(hidden, p1, p2) ==
    \E n \in PackCounts :
        \E h \in shuffleDeck(ReducedDeck(n)) :
            \E d \in DealLoop(h, EmptyDeck, EmptyDeck, 0) :
                /\ hidden = d[1]
                /\ p1 = customSort(d[2])
                /\ p2 = customSort(d[3])

\* no operation applied on its own
NoProbe ==
    [op |-> "none", deck |-> EmptyDeck, n |-> 0, card |-> ZeroCard,
     out |-> EmptyDeck, text |-> <<>>, crashed |-> FALSE]

\* no turn taken yet
NoTurn ==
    [taken |-> FALSE, who |-> PlayerOne,
     t |-> CrashedTurn(Seen(Decks(EmptyDeck, EmptyDeck, EmptyDeck), FALSE,
                            ZeroCard, EmptyDeck, -1, <<>>),
                       Decks(EmptyDeck, EmptyDeck, EmptyDeck))]

Init ==
    /\ MainSetup(hiddenDeck, player1, player2)
    /\ playedDeck = EmptyDeck
    /\ currentPlayer = PlayerOne
    /\ pc = "InProgress"
    /\ turn = NoTurn
    /\ probe = NoProbe

\* one pass of the loop of startGame: takeTurn on the current player's hand,
\* then the toggle
TakeTurn ==
    /\ pc = "InProgress"
    /\ ~isGameFinished(player1, player2)
    /\ \E t \in takeTurn(hiddenDeck,
                         IF currentPlayer = PlayerOne THEN player1 ELSE player2,
                         playedDeck) :
          /\ hiddenDeck' = t.after.hidden
          /\ playedDeck' = t.after.played
          /\ player1' = IF currentPlayer = PlayerOne THEN t.after.player ELSE player1
          /\ player2' = IF currentPlayer = PlayerOne THEN player2 ELSE t.after.player
          /\ turn' = [taken |-> TRUE, who |-> currentPlayer, t |-> t]
          /\ IF t.crashed
             THEN pc' = "Crashed" /\ currentPlayer' = currentPlayer
             ELSE pc' = pc /\ currentPlayer' = Toggle(currentPlayer)
    /\ UNCHANGED probe

\* the loop exits and "Game over!" is printed
GameOver ==
    /\ pc = "InProgress"
    /\ isGameFinished(player1, player2)
    /\ pc' = "Finished"
    /\ UNCHANGED <<hiddenDeck, player1, player2, playedDeck, currentPlayer, turn,
                   probe>>

Next == TakeTurn \/ GameOver

Spec == Init /\ [][Next]_vars

(* ------------------- the operations on their own ---------------------- *)
\* decks of up to MaxProbeLen cards of the reduced pack, in any order and
\* with repeated cards
InputDecks ==
    UNION {{[cards |-> cs, size |-> k, topCard |-> ZeroCard] : cs \in [1 .. k -> Cards]}
           : k \in 0 .. MaxProbeLen}

\* the cards of one full pack
PackCards == {PlayingCard(s, r) : s \in Club .. Diamond, r \in Two .. Ace}

Probe(op, deck, n, card, out, text, crashed) ==
    [op |-> op, deck |-> deck, n |-> n, card |-> card, out |-> out,
     text |-> text, crashed |-> crashed]

ProbeInit ==
    /\ hiddenDeck = EmptyDeck
    /\ player1 = EmptyDeck
    /\ player2 = EmptyDeck
    /\ playedDeck = EmptyDeck
    /\ currentPlayer = PlayerOne
    /\ pc = "Probe"
    /\ turn = NoTurn
    /\ \E d \in InputDecks :
          probe = Probe("input", d, 0, ZeroCard, d, <<>>, FALSE)

ProbeFrame ==
    UNCHANGED <<hiddenDeck, player1, player2, playedDeck, currentPlayer, pc, turn>>

ProbeInitialize ==
    /\ probe.op = "input" /\ probe.deck = EmptyDeck
    /\ \E n \in MinPacks .. MaxPacks :
          probe' = Probe("initializeDeck", probe.deck, n, ZeroCard,
                         initializeDeck(n), <<>>, FALSE)
    /\ ProbeFrame

ProbeShuffle ==
    /\ probe.op = "input"
    /\ \E o \in shuffleDeck(probe.deck) :
          probe' = Probe("shuffleDeck", probe.deck, 0, ZeroCard, o, <<>>, FALSE)
    /\ ProbeFrame

ProbeSort ==
    /\ probe.op = "input"
    /\ probe' = Probe("customSort", probe.deck, 0, ZeroCard,
                      customSort(probe.deck), <<>>, FALSE)
    /\ ProbeFrame

ProbeDraw ==
    /\ probe.op = "input"
    /\ \E o \in drawCard(probe.deck) :
          probe' = Probe("drawCard", probe.deck, 0, o.card, o.deck, <<>>, o.crashed)
    /\ ProbeFrame

ProbeAdd ==
    /\ probe.op = "input"
    /\ \E c \in Cards :
          probe' = Probe("addCardToDeck", probe.deck, 0, c,
                         addCardToDeck(probe.deck, c), <<>>, FALSE)
    /\ ProbeFrame

\* drawCard, then addCardToDeck of the returned card onto the same deck
ProbeDrawAdd ==
    /\ probe.op = "input"
    /\ \E o \in drawCard(probe.deck) :
          probe' = Probe("drawCard;addCardToDeck", probe.deck, 0, o.card,
                         IF o.crashed THEN o.deck ELSE addCardToDeck(o.deck, o.card),
                         <<>>, o.crashed)
    /\ ProbeFrame

\* one line of displayDeck, for a card of the full pack
ProbeDisplay ==
    /\ probe.op = "input" /\ probe.deck = EmptyDeck
    /\ \E c \in PackCards :
          \E l \in displayLine(c) :
              probe' = Probe("displayDeck", probe.deck, 0, c, probe.deck,
                             l.text, l.crashed)
    /\ ProbeFrame

ProbeNext ==
    \/ ProbeInitialize
    \/ ProbeShuffle
    \/ ProbeSort
    \/ ProbeDraw
    \/ ProbeAdd
    \/ ProbeDrawAdd
    \/ ProbeDisplay

ProbeSpec == ProbeInit /\ [][ProbeNext]_vars

(* ------------------------------- claims -------------------------------- *)
\* the turn just taken, and whether it ran to its end
T == turn.t
Completed == turn.taken /\ ~T.crashed

\* cards held by the three decks a turn works on
Total(d) == d.hidden.size + d.player.size + d.played.size

Last(cards) == cards[Len(cards)]
Front(cards) == SubSeq(cards, 1, Len(cards) - 1)

\* C1: conservation - every completed takeTurn leaves the number of cards in
\* drawPile + the current player's hand + discardPile as it found it.
C1_Conservation ==
    Completed => Total(T.after) = Total(T.seen.before)

\* C2: drawCard is never called on an empty draw pile during a takeTurn, so
\* no deck size ever becomes negative.
C2_NoEmptyDraw ==
    /\ turn.taken => \A k \in 1 .. Len(T.seen.draws) : T.seen.draws[k] >= 1
    /\ hiddenDeck.size >= 0

\* C3: the game loop stops only in the Finished state.
C3_StopsOnlyFinished ==
    pc # "InProgress" => pc = "Finished"

\* C4: a turn that starts with a non-empty discard pile takes the last card
\* of the discard pile as its reference, whatever its rank, and draws no
\* reference card.
C4_ReferenceIsLastPlayed ==
    (turn.taken /\ T.seen.before.played.size > 0)
        => /\ ~T.seen.refDrawn
           /\ T.seen.ref = Last(T.seen.before.played.cards)

\* C5: a turn begins with the top card testing as the empty sentinel only if
\* it is the first turn of the game or the turn before it reshuffled.
C5_SentinelOnlyAfterReshuffle ==
    (pc = "InProgress" /\ ~isGameFinished(player1, player2)
        /\ IsEmptyTop(playedDeck.topCard))
        => (~turn.taken \/ T.reshuffled)

\* indices (0-based) of the hand cards with the rank or the suit of card
Matches(cards, card) ==
    {i \in 0 .. (Len(cards) - 1) :
        At(cards, i).rank = card.rank \/ At(cards, i).suit = card.suit}

Lowest(S) == CHOOSE i \in S : \A k \in S : i <= k

\* cards without the element at 0-based index i, the others in order
Without(cards, i) == SubSeq(cards, 1, i) \o SubSeq(cards, i + 2, Len(cards))

\* the turn reached its scan with a reference card
Scanned == turn.taken /\ (T.crashed => Len(T.seen.draws) = 2
                                       \/ ~T.seen.refDrawn)

\* C6: first-match play - if some hand card has the rank or the suit of the
\* reference, the card at the lowest such index is played: after the play
\* step the hand is the old hand without it (order kept), the discard pile is
\* the old one with it appended, and topCard is that card.
C6_FirstMatchPlay ==
    (Scanned /\ Matches(T.seen.before.player.cards, T.seen.ref) # {})
        => LET hand == T.seen.before.player.cards
               i == Lowest(Matches(hand, T.seen.ref))
           IN  /\ ~T.crashed
               /\ T.seen.matchIndex = i
               /\ T.mid.player.cards = Without(hand, i)
               /\ T.mid.player.size = Len(hand) - 1
               /\ T.mid.played.cards
                     = Append(T.seen.before.played.cards, At(hand, i))
               /\ T.mid.played.size = T.seen.before.played.size + 1
               /\ T.mid.played.topCard = At(hand, i)

\* a play of the card at index 1 of a hand that holds a later match too
C6_Witness ==
    /\ Completed
    /\ T.seen.matchIndex = 1
    /\ Cardinality(Matches(T.seen.before.player.cards, T.seen.ref)) >= 2

\* C7: no-match draw - without a match, exactly the top (last) card of the
\* draw pile moves to the end of the hand and the discard pile and its
\* topCard stay as they were; with a match the hand changes only by the
\* removal of the played card.
C7_NoMatchDraw ==
    Scanned =>
        LET hand == T.seen.before.player.cards
            pile == T.seen.pile
        IN  IF Matches(hand, T.seen.ref) = {}
            THEN /\ ~T.crashed
                 /\ pile.size >= 1
                 /\ T.mid.hidden.cards = Front(pile.cards)
                 /\ T.mid.hidden.size = pile.size - 1
                 /\ T.mid.player.cards = Append(hand, Last(pile.cards))
                 /\ T.mid.played = T.seen.before.played
            ELSE /\ T.mid.player.cards
                      = Without(hand, Lowest(Matches(hand, T.seen.ref)))
                 /\ T.mid.hidden = pile

\* number of copies of card c in cards
Copies(cards, c) == Cardinality({k \in 1 .. Len(cards) : cards[k] = c})

IsPermutation(a, b) ==
    /\ Len(a) = Len(b)
    /\ \A c \in AnyCard : Copies(a, c) = Copies(b, c)

\* C8: reshuffle rule - at the end of a turn, if and only if the draw pile is
\* empty after the draw/play step, the draw pile becomes a permutation of
\* the whole discard pile as it stood after that step, the discard pile
\* becomes empty and its topCard the empty sentinel; otherwise step 5
\* changes nothing.
C8_ReshuffleRule ==
    Completed =>
        /\ T.reshuffled <=> T.mid.hidden.size = 0
        /\ IF T.mid.hidden.size = 0
           THEN /\ IsPermutation(T.after.hidden.cards, T.mid.played.cards)
                /\ T.after.hidden.size = T.mid.played.size
                /\ T.after.played.cards = <<>>
                /\ T.after.played.size = 0
                /\ T.after.played.topCard.rank = 0
                /\ T.after.player = T.mid.player
           ELSE T.after = T.mid

\* a reshuffle that moves the card played in the same turn, and others,
\* into the draw pile in a new order
C8_Witness ==
    /\ Completed
    /\ T.reshuffled
    /\ T.seen.matchIndex # -1
    /\ T.mid.played.size >= 2
    /\ T.after.hidden.cards # T.mid.played.cards

\* C9: between turns the cached topCard is in sync - it is the last card of
\* a non-empty discard pile and the empty sentinel on an empty one.
C9_TopCardInSync ==
    pc # "Crashed" =>
        /\ playedDeck.size > 0 => playedDeck.topCard = Last(playedDeck.cards)
        /\ playedDeck.size = 0 => playedDeck.topCard.rank = 0
        /\ playedDeck.size = Len(playedDeck.cards)

\* a card has just been played onto a discard pile that held one already
C9_Witness ==
    /\ pc = "InProgress"
    /\ Completed
    /\ T.seen.matchIndex # -1
    /\ playedDeck.size >= 2

\* C10: win detection - isGameFinished is true exactly when a hand holds no
\* card; the loop takes a turn only when both hands hold cards, and moves to
\* Finished, taking no further turn, once a hand is empty after a turn.
C10_HandEmpty == player1.cards = <<>> \/ player2.cards = <<>>

C10_WinDetection ==
    /\ [](isGameFinished(player1, player2) <=> C10_HandEmpty)
    /\ [](pc = "Finished" => C10_HandEmpty /\ turn.taken)
    /\ [][/\ turn' # turn => ~C10_HandEmpty
          /\ (pc = "InProgress" /\ C10_HandEmpty)
                => (pc' = "Finished" /\ turn' = turn)
          /\ pc' = "Finished" => C10_HandEmpty]_vars

\* the loop has exited after a turn that emptied the hand of its player
C10_Witness ==
    /\ pc = "Finished"
    /\ Completed
    /\ T.after.player.size = 0

\* the hand of player p
HandOf(p, p1, p2) == IF p = PlayerOne THEN p1 ELSE p2

\* C11: strict turn alternation - the first turn is PlayerOne's, the
\* indicator is toggled exactly once after each completed takeTurn and at no
\* other time, consecutive turns are taken by different players, and each
\* takeTurn works on the hand of the current player.
C11_StrictAlternation ==
    /\ [](~turn.taken => currentPlayer = PlayerOne)
    /\ [][IF turn' # turn
          THEN /\ turn'.who = currentPlayer
               /\ turn.taken => turn'.who # turn.who
               /\ turn'.t.seen.before.player
                     = HandOf(currentPlayer, player1, player2)
               /\ turn'.t.after.player
                     = HandOf(currentPlayer, player1', player2')
               /\ ~turn'.t.crashed
                     => /\ currentPlayer' \in {PlayerOne, PlayerTwo}
                        /\ currentPlayer' # currentPlayer
          ELSE currentPlayer' = currentPlayer]_vars

\* PlayerTwo has completed a turn on a hand that the turn changed
C11_Witness ==
    /\ Completed
    /\ turn.who = PlayerTwo
    /\ currentPlayer = PlayerOne
    /\ player2 = T.after.player
    /\ player2 # T.seen.before.player

\* C16: the discard pile starts empty and, from one turn to the next, keeps
\* its cards, or gains exactly one card at its end, or drops to no card.
C16_DiscardGrowth ==
    /\ [](~turn.taken => playedDeck.size = 0 /\ playedDeck.cards = <<>>)
    /\ [](playedDeck.size = Len(playedDeck.cards))
    /\ [][\/ playedDeck'.cards = playedDeck.cards
          \/ /\ playedDeck'.size = playedDeck.size + 1
             /\ Front(playedDeck'.cards) = playedDeck.cards
          \/ playedDeck'.size = 0]_vars

\* a reshuffle has just emptied a discard pile that held cards before the turn
C16_Witness ==
    /\ Completed
    /\ T.reshuffled
    /\ T.seen.before.played.size >= 1
    /\ playedDeck.size = 0

Other(p) == IF p = PlayerOne THEN PlayerTwo ELSE PlayerOne

\* C18: at Finished exactly one hand is empty, the hand of the player who
\* took the last turn, and the indicator names the other player; the two
\* hands are never empty together, and a hand becomes empty only by a play.
C18_OneWinner ==
    /\ [](~(player1.cards = <<>> /\ player2.cards = <<>>))
    /\ [](pc = "Finished" =>
            /\ Completed
            /\ HandOf(turn.who, player1, player2).cards = <<>>
            /\ HandOf(Other(turn.who), player1, player2).cards # <<>>
            /\ currentPlayer = Other(turn.who))
    /\ [][\A p \in {PlayerOne, PlayerTwo} :
            (/\ HandOf(p, player1, player2).cards # <<>>
             /\ HandOf(p, player1', player2').cards = <<>>)
                => /\ turn'.who = p
                   /\ turn'.t.seen.matchIndex # -1
                   /\ turn'.t.seen.before.player.size = 1]_vars

\* PlayerTwo has won: the loop has exited on player2's empty hand
C18_Witness ==
    /\ pc = "Finished"
    /\ turn.who = PlayerTwo
    /\ player2.cards = <<>>
    /\ T.seen.matchIndex # -1

\* the cards of the four containers of the game
AllCards == hiddenDeck.cards \o player1.cards \o player2.cards \o playedDeck.cards

\* C19: no card is ever duplicated - over the draw pile, both hands and the
\* discard pile each (suit, rank) pair has at most packCount copies, the
\* four containers never hold more cards than the packs have, and their
\* total never grows from one turn to the next.
C19_NoDuplicates ==
    /\ [](\E n \in PackCounts :
            /\ \A c \in Cards : Copies(AllCards, c) <= n
            /\ Len(AllCards) <= Cardinality(Cards) * n)
    /\ [][Len(AllCards') <= Len(AllCards)]_vars

\* C20: every completed takeTurn changes the size of the current player's
\* hand by exactly +1 (a draw) or -1 (a play), never by 0, and leaves the
\* other player's hand as it was.
C20_HandStep ==
    [][(turn' # turn /\ ~turn'.t.crashed) =>
        LET mine == HandOf(currentPlayer, player1, player2)
            mineAfter == HandOf(currentPlayer, player1', player2')
        IN  /\ IF turn'.t.seen.matchIndex # -1
               THEN /\ mineAfter.size = mine.size - 1
                    /\ Len(mineAfter.cards) = Len(mine.cards) - 1
               ELSE /\ mineAfter.size = mine.size + 1
                    /\ Len(mineAfter.cards) = Len(mine.cards) + 1
            /\ HandOf(Other(currentPlayer), player1', player2')
                  = HandOf(Other(currentPlayer), player1, player2)]_vars

\* PlayerOne has played a card while player2 holds the card it drew in the
\* turn before
C20_Witness ==
    /\ Completed
    /\ turn.who = PlayerOne
    /\ T.seen.matchIndex # -1
    /\ T.after.player.size = T.seen.before.player.size - 1
    /\ player2.size > DealCount

\* C12: for every packCount in 1..10 initializeDeck yields 52 x packCount
\* cards in (pack, suit, rank) nested order, each of the 52 (suit, rank)
\* pairs exactly packCount times.
C12_InitializeDeck ==
    probe.op = "initializeDeck" =>
        /\ probe.n \in 1 .. 10
        /\ probe.out.size = 52 * probe.n
        /\ Len(probe.out.cards) = 52 * probe.n
        /\ \A k \in 0 .. (52 * probe.n - 1) :
              At(probe.out.cards, k) = PlayingCard((k % 52) \div 13, k % 13)
        /\ \A s \in 0 .. 3 : \A r \in 0 .. 12 :
              Copies(probe.out.cards, PlayingCard(s, r)) = probe.n

\* the deck of ten packs has been built
C12_Witness ==
    /\ probe.op = "initializeDeck"
    /\ probe.n = 10
    /\ probe.out.size = 520

\* C13: shuffleDeck is a permutation of the deck for every sequence of random
\* choices - size and the number of copies of every card stay as they were,
\* also for decks of size 0 and 1.
C13_ShufflePermutes ==
    probe.op = "shuffleDeck" =>
        /\ probe.out.size = probe.deck.size
        /\ IsPermutation(probe.out.cards, probe.deck.cards)
        /\ probe.deck.size <= 1 => probe.out = probe.deck

\* a deck with a repeated card has been shuffled into another order
C13_Witness ==
    /\ probe.op = "shuffleDeck"
    /\ probe.deck.size = 3
    /\ probe.out.cards # probe.deck.cards
    /\ \E c \in Cards : Copies(probe.deck.cards, c) = 2

SortedByRank(cards) ==
    \A k \in 1 .. (Len(cards) - 1) : cards[k].rank <= cards[k + 1].rank

\* C14: customSort leaves every deck, the empty and the single-card deck
\* included, ascending by rank with the same cards, and sorting the sorted
\* deck again changes nothing.
C14_CustomSort ==
    probe.op = "customSort" =>
        /\ SortedByRank(probe.out.cards)
        /\ probe.out.size = probe.deck.size
        /\ IsPermutation(probe.out.cards, probe.deck.cards)
        /\ customSort(probe.out) = probe.out
        /\ SortedByRank(probe.deck.cards) => probe.out = probe.deck

\* a deck of three cards in descending rank order has been sorted
C14_Witness ==
    /\ probe.op = "customSort"
    /\ probe.deck.size = 3
    /\ probe.deck.cards[1].rank > probe.deck.cards[2].rank
    /\ probe.deck.cards[2].rank > probe.deck.cards[3].rank
    /\ probe.out # probe.deck

\* C15: on a non-empty deck drawCard returns the last card and leaves the
\* others in order with size one less; addCardToDeck appends at the end with
\* size one more; drawCard followed by addCardToDeck of the returned card
\* restores the deck.
C15_DeckRoundTrip ==
    /\ (probe.op = "drawCard" /\ probe.deck.size >= 1) =>
          /\ ~probe.crashed
          /\ probe.card = Last(probe.deck.cards)
          /\ probe.out.cards = Front(probe.deck.cards)
          /\ probe.out.size = probe.deck.size - 1
    /\ probe.op = "addCardToDeck" =>
          /\ probe.out.cards = Append(probe.deck.cards, probe.card)
          /\ probe.out.size = probe.deck.size + 1
    /\ (probe.op = "drawCard;addCardToDeck" /\ probe.deck.size >= 1) =>
          /\ ~probe.crashed
          /\ probe.out = probe.deck

\* a deck of three cards, not all alike, has been drawn from and given the
\* card back
C15_Witness ==
    /\ probe.op = "drawCard;addCardToDeck"
    /\ probe.deck.size = 3
    /\ probe.deck.cards[1] # probe.deck.cards[3]
    /\ probe.out.cards = probe.deck.cards

\* the names of the enums
SuitName == <<"Club", "Spade", "Heart", "Diamond">>
RankName == <<"Two", "Three", "Four", "Five", "Six", "Seven", "Eight", "Nine",
              "Ten", "Jack", "Queen", "King", "Ace">>

\* C17: rendering is a total lookup on the valid enums - every card of the
\* pack is displayed as "<Rank> of <Suit>" with the names of its rank and
\* suit.
C17_RenderingTotal ==
    probe.op = "displayDeck" =>
        /\ ~probe.crashed
        /\ probe.text = <<RankName[probe.card.rank + 1], "of",
                          SuitName[probe.card.suit + 1]>>

====
